---- MODULE Spec2Model ----
(***************************************************************************)
(* Model of the prediction-submission workflow of the node-server backend  *)
(* (predict, parsePatientData, getRiskLevel, sendEmailNotification in the   *)
(* application controller; createPatient and callPythonService in          *)
(* Service/appService.js).                                                 *)
(*                                                                         *)
(* JavaScript values are modelled as tagged records, numbers as fixed-point *)
(* values in units of 1/Radix, and strings as sequences of one-character   *)
(* strings so that isNaN, parseInt and parseFloat are computed the way the *)
(* language computes them.                                                 *)
(***************************************************************************)
EXTENDS Integers, Sequences, FiniteSets

(***************************************************************************)
(* Bounds of the model.                                                    *)
(***************************************************************************)
\* Largest number of model entries in one gateway response.
MaxModels == 2
\* Number of request slots of the server.
NumReqs == 2
\* Largest confidence value the risk classifier is probed with.
MaxProbe == 100
\* Number of requests to the authentication handlers.
NumAuthReqs == 3
\* Number of requests to the admin's handlers.
NumAdminReqs == 2
\* The hour at which the clock stops.
MaxClock == 2
\* Number of requests to getAllPatients and getPatientDetails.
NumReadReqs == 2

\* The radix of parseInt(x, 10). The modelled numbers are fixed-point with one
\* fractional digit in this radix: a finite number v stands for v/Radix.
Radix == 10

(***************************************************************************)
(* JavaScript numbers: finite (v in units of 1/Radix), NaN, +-Infinity     *)
(* (v is the sign).                                                        *)
(***************************************************************************)
Fin(v) == [k |-> "fin", v |-> v]
NaN == [k |-> "nan", v |-> 0]
Inf(sign) == [k |-> "inf", v |-> sign]
Zero == Fin(0)

IsFinite(n) == n.k = "fin"

(***************************************************************************)
(* JavaScript values.                                                      *)
(***************************************************************************)
JUndefined == [t |-> "undefined", b |-> FALSE, n |-> Zero, s |-> <<>>]
JNull == [t |-> "null", b |-> FALSE, n |-> Zero, s |-> <<>>]
JBool(b) == [t |-> "boolean", b |-> b, n |-> Zero, s |-> <<>>]
JNum(n) == [t |-> "number", b |-> FALSE, n |-> n, s |-> <<>>]
JStr(s) == [t |-> "string", b |-> FALSE, n |-> Zero, s |-> s]

(***************************************************************************)
(* Characters and strings.                                                 *)
(***************************************************************************)
DigitChars == <<"0", "1", "2", "3", "4", "5", "6", "7", "8", "9">>
IsDigit(c) == \E i \in 1..10 : DigitChars[i] = c
DigitVal(c) == (CHOOSE i \in 1..10 : DigitChars[i] = c) - 1
IsSpace(c) == c = " "

InfinityChars == <<"I", "n", "f", "i", "n", "i", "t", "y">>

RECURSIVE TrimLeft(_)
TrimLeft(s) ==
  IF s # <<>> /\ IsSpace(Head(s)) THEN TrimLeft(Tail(s)) ELSE s

RECURSIVE TrimRight(_)
TrimRight(s) ==
  IF s # <<>> /\ IsSpace(s[Len(s)]) THEN TrimRight(SubSeq(s, 1, Len(s) - 1)) ELSE s

\* Length of the longest prefix of s made of decimal digits.
RECURSIVE DigitRun(_)
DigitRun(s) ==
  IF s # <<>> /\ IsDigit(Head(s)) THEN 1 + DigitRun(Tail(s)) ELSE 0

\* Value of a sequence of decimal digits (0 for the empty sequence).
RECURSIVE DigitsValue(_)
DigitsValue(s) ==
  IF s = <<>> THEN 0 ELSE Radix * DigitsValue(SubSeq(s, 1, Len(s) - 1)) + DigitVal(s[Len(s)])

StartsWith(s, p) == Len(s) >= Len(p) /\ SubSeq(s, 1, Len(p)) = p

\* Value, in units of 1/Radix, of the fraction digits f (the digits after the
\* point): the first digit counts.
FractionValue(f) == IF f = <<>> THEN 0 ELSE DigitVal(f[1])

\* Decimal digits of a natural number.
RECURSIVE NatToChars(_)
NatToChars(i) ==
  IF i < Radix THEN <<DigitChars[i + 1]>>
  ELSE NatToChars(i \div Radix) \o <<DigitChars[(i % Radix) + 1]>>

Abs(i) == IF i < 0 THEN -i ELSE i

\* Number::toString for the modelled numbers.
NumberToString(n) ==
  CASE n.k = "nan" -> <<"N", "a", "N">>
    [] n.k = "inf" -> (IF n.v < 0 THEN <<"-">> ELSE <<>>) \o InfinityChars
    [] OTHER ->
         (IF n.v < 0 THEN <<"-">> ELSE <<>>)
           \o NatToChars(Abs(n.v) \div Radix)
           \o (IF Abs(n.v) % Radix = 0 THEN <<>> ELSE <<".", DigitChars[(Abs(n.v) % Radix) + 1]>>)

\* ToString of a JavaScript value.
ToString(x) ==
  CASE x.t = "undefined" -> <<"u", "n", "d", "e", "f", "i", "n", "e", "d">>
    [] x.t = "null" -> <<"n", "u", "l", "l">>
    [] x.t = "boolean" -> IF x.b THEN <<"t", "r", "u", "e">> ELSE <<"f", "a", "l", "s", "e">>
    [] x.t = "number" -> NumberToString(x.n)
    [] OTHER -> x.s

\* The sign of a numeric literal and what follows it.
SignOf(s) == IF s # <<>> /\ Head(s) = "-" THEN -1 ELSE 1
AfterSign(s) == IF s # <<>> /\ Head(s) \in {"-", "+"} THEN Tail(s) ELSE s

\* The longest prefix of s that is a decimal literal digits[.digits] or .digits,
\* as <<integer digits, fraction digits, length consumed>>; length 0 when s
\* starts with no decimal literal.
DecimalPrefix(s) ==
  LET d1 == DigitRun(s)
      rest == SubSeq(s, d1 + 1, Len(s))
      hasPoint == rest # <<>> /\ Head(rest) = "."
      d2 == IF hasPoint THEN DigitRun(Tail(rest)) ELSE 0
  IN  IF d1 = 0 /\ d2 = 0 THEN <<(<<>>), (<<>>), 0>>
      ELSE <<SubSeq(s, 1, d1),
             IF hasPoint THEN SubSeq(rest, 2, 1 + d2) ELSE <<>>,
             d1 + (IF hasPoint THEN 1 + d2 ELSE 0)>>

\* StringToNumber (the Number() conversion of a string): the whole trimmed
\* string must be a numeric literal; the empty string is 0.
StringToNumber(s) ==
  LET t == TrimRight(TrimLeft(s))
      sign == SignOf(t)
      u == AfterSign(t)
      p == DecimalPrefix(u)
  IN  CASE t = <<>> -> Zero
        [] u = InfinityChars -> Inf(sign)
        [] p[3] > 0 /\ p[3] = Len(u) -> Fin(sign * (DigitsValue(p[1]) * Radix + FractionValue(p[2])))
        [] OTHER -> NaN

\* ToNumber of a JavaScript value.
ToNumber(x) ==
  CASE x.t = "undefined" -> NaN
    [] x.t = "null" -> Zero
    [] x.t = "boolean" -> IF x.b THEN Fin(Radix) ELSE Zero
    [] x.t = "number" -> x.n
    [] OTHER -> StringToNumber(x.s)

\* The global isNaN(x).
isNaN(x) == ToNumber(x).k = "nan"

\* parseInt(x, 10): the longest signed digit prefix of the string of x.
parseInt(x) ==
  LET t == TrimLeft(ToString(x))
      sign == SignOf(t)
      u == AfterSign(t)
      d == DigitRun(u)
  IN  IF d = 0 THEN NaN ELSE Fin(sign * DigitsValue(SubSeq(u, 1, d)) * Radix)

\* parseFloat(x): the longest decimal-literal prefix of the string of x.
parseFloat(x) ==
  LET t == TrimLeft(ToString(x))
      sign == SignOf(t)
      u == AfterSign(t)
      p == DecimalPrefix(u)
  IN  CASE StartsWith(u, InfinityChars) -> Inf(sign)
        [] p[3] > 0 -> Fin(sign * (DigitsValue(p[1]) * Radix + FractionValue(p[2])))
        [] OTHER -> NaN

\* Truthiness of a number and of a value.
NumTruthy(n) == n.k = "inf" \/ (n.k = "fin" /\ n.v # 0)
Truthy(x) ==
  CASE x.t = "undefined" -> FALSE
    [] x.t = "null" -> FALSE
    [] x.t = "boolean" -> x.b
    [] x.t = "number" -> NumTruthy(x.n)
    [] x.t = "string" -> x.s # <<>>
    [] OTHER -> TRUE

\* A variant of n || 0 that keeps NaN.
OrZeroKeepsNaN(n) == n

\* n || 0
OrZero(n) == IF NumTruthy(n) THEN n ELSE Zero

(***************************************************************************)
(* Text the program never parses (names, ids, addresses) is a one-token    *)
(* string.                                                                 *)
(***************************************************************************)
Text(w) == JStr(<<w>>)

(***************************************************************************)
(* parsePatientData                                                        *)
(***************************************************************************)
fieldsToValidate ==
  <<"age", "bmi", "insulin", "Pregnancies", "Glucose",
    "BloodPressure", "SkinThickness", "DiabetesPedigreeFunction", "name">>

\* A variant of the validation test that only looks for absent fields.
FieldRejectedMissingOnly(patientData, field) ==
  patientData[field] = JUndefined /\ field # "name"

\* The test of the validation loop for one field of the request body.
FieldRejected(patientData, field) ==
  (patientData[field] = JUndefined \/ isNaN(patientData[field])) /\ field # "name"

\* Index in fieldsToValidate of the field the loop throws on; 0 when it throws on none.
FirstRejected(patientData) ==
  IF \E i \in 1..Len(fieldsToValidate) : FieldRejected(patientData, fieldsToValidate[i])
  THEN CHOOSE i \in 1..Len(fieldsToValidate) :
         /\ FieldRejected(patientData, fieldsToValidate[i])
         /\ \A j \in 1..(i - 1) : ~FieldRejected(patientData, fieldsToValidate[j])
  ELSE 0

\* The message of the error parsePatientData throws on a field.
InvalidFieldMessage(field) == <<"Invalid or missing value for field: ", field>>

\* The record parsePatientData returns when it throws on no field.
ParsedRecord(patientData) ==
  [name |-> IF Truthy(patientData["name"]) THEN patientData["name"] ELSE Text("Unknown"),
   Age |-> OrZero(parseInt(patientData["age"])),
   BMI |-> OrZero(parseFloat(patientData["bmi"])),
   Insulin |-> OrZero(parseFloat(patientData["insulin"])),
   Pregnancies |-> OrZero(parseInt(patientData["Pregnancies"])),
   Glucose |-> OrZero(parseFloat(patientData["Glucose"])),
   BloodPressure |-> OrZero(parseFloat(patientData["BloodPressure"])),
   SkinThickness |-> OrZero(parseFloat(patientData["SkinThickness"])),
   DiabetesPedigreeFunction |-> OrZero(parseFloat(patientData["DiabetesPedigreeFunction"])),
   prediction |-> JBool(FALSE),
   precentage |-> 0,
   userId |-> patientData["userId"]]

\* parsePatientData: thrown says whether it throws, message is the error's
\* message and value the record returned.
parsePatientData(patientData) ==
  LET i == FirstRejected(patientData)
  IN  IF i # 0
      THEN [thrown |-> TRUE, message |-> InvalidFieldMessage(fieldsToValidate[i]),
            value |-> ParsedRecord(patientData)]
      ELSE [thrown |-> FALSE, message |-> <<>>, value |-> ParsedRecord(patientData)]

\* The numeric fields of a parsed record.
NumericFields ==
  {"Age", "BMI", "Insulin", "Pregnancies", "Glucose",
   "BloodPressure", "SkinThickness", "DiabetesPedigreeFunction"}

(***************************************************************************)
(* getRiskLevel                                                            *)
(***************************************************************************)
\* A variant of getRiskLevel whose bands include their upper bounds.
getRiskLevelInclusive(precentage) ==
  IF precentage <= 40
  THEN [riskLevel |-> "Low",
        recommendation |-> "Maintain a healthy lifestyle and regular checkups."]
  ELSE IF precentage <= 70
  THEN [riskLevel |-> "Moderate",
        recommendation |-> "Monitor health regularly and consider lifestyle improvements."]
  ELSE IF precentage <= 90
  THEN [riskLevel |-> "High",
        recommendation |-> "Consult a doctor and undergo further medical checkups."]
  ELSE [riskLevel |-> "Critical",
        recommendation |-> "Immediate medical consultation is required."]

getRiskLevel(precentage) ==
  IF precentage < 40
  THEN [riskLevel |-> "Low",
        recommendation |-> "Maintain a healthy lifestyle and regular checkups."]
  ELSE IF precentage < 70
  THEN [riskLevel |-> "Moderate",
        recommendation |-> "Monitor health regularly and consider lifestyle improvements."]
  ELSE IF precentage < 90
  THEN [riskLevel |-> "High",
        recommendation |-> "Consult a doctor and undergo further medical checkups."]
  ELSE [riskLevel |-> "Critical",
        recommendation |-> "Immediate medical consultation is required."]

(***************************************************************************)
(* The best-model reduction of predict.  A gateway response is the         *)
(* sequence of its entries [model, prediction, precentage] in the order    *)
(* Object.entries yields them.                                             *)
(***************************************************************************)
\* The initial value of the reduction, {precentage: 0}: it has neither a model
\* nor a prediction property, which read as undefined.
bestModelSeed == [model |-> JUndefined, prediction |-> JUndefined, precentage |-> 0]

\* A variant of the reducer in which a later entry wins a tie.
bestModelStepLastWins(best, entry) ==
  IF entry.precentage >= best.precentage
  THEN [model |-> Text(entry.model), prediction |-> JBool(entry.prediction),
        precentage |-> entry.precentage]
  ELSE best

\* One call of the reducer.
bestModelStep(best, entry) ==
  IF entry.precentage > best.precentage
  THEN [model |-> Text(entry.model), prediction |-> JBool(entry.prediction),
        precentage |-> entry.precentage]
  ELSE best

RECURSIVE reduceEntries(_, _)
reduceEntries(entries, best) ==
  IF entries = <<>> THEN best
  ELSE reduceEntries(Tail(entries), bestModelStep(best, Head(entries)))

\* Object.entries(predictionResponse).reduce(..., {precentage: 0})
reduceBestModel(predictionResponse) == reduceEntries(predictionResponse, bestModelSeed)

(***************************************************************************)
(* The server's state.                                                     *)
(***************************************************************************)
VARIABLES
  users,              \* the User table
  patients,           \* the Patient table
  notifications,      \* the Notification table
  outbox,             \* the mails the transporter delivered, in order
  nextPatientId,      \* the Patient table's serial
  nextNotificationId, \* the Notification table's serial
  pc,                 \* where each request's handler stands
  req,                \* each request: req.user?.userId and req.body
  user,               \* predict's local user
  patientData,        \* predict's local patientData
  predictionResponse, \* predict's local predictionResponse
  bestModel,          \* predict's local bestModel
  patient,            \* predict's local patient
  res,                \* the response sent to each request
  calls,              \* how often each request invoked each collaborator
  effects,            \* what each request's invocations achieved
  pythonService,      \* the response mappings the prediction service may answer with
  auth,               \* the requests to login, register, forgotPassword, resetPassword
  now,                \* Date.now(), in hours
  nextToken,          \* how many reset tokens crypto.randomBytes has produced, plus one
  nextUserId,         \* the User table's serial
  admin,              \* the requests to the admin's deleteUser and deletePatient
  onUserDelete,       \* the referential action of Patient.userId
  reads,              \* the requests to getAllPatients and getPatientDetails
  probe               \* a confidence value and the risk level computed for it

\* The state of the authentication handlers, of the admin's handlers.
authVars == <<auth, now, nextToken, nextUserId>>
adminVars == <<admin, onUserDelete>>

vars ==
  <<users, patients, notifications, outbox, nextPatientId, nextNotificationId,
    pc, req, user, patientData, predictionResponse, bestModel, patient, res,
    calls, effects, pythonService, auth, now, nextToken, nextUserId, admin,
    onUserDelete, reads, probe>>

Reqs == 1..NumReqs

\* A local that holds nothing yet.
Unset == [unset |-> TRUE]

NoRequest == [userId |-> JUndefined, body |-> Unset, present |-> FALSE]
NoResponse == [count |-> 0, status |-> 0, error |-> <<>>, json |-> Unset]
NoPredictionResponse == [kind |-> "none", entries |-> <<>>]
NoCalls ==
  [findUser |-> 0, callPythonService |-> 0, createPatient |-> 0,
   createNotification |-> 0, sendMail |-> 0]
NoProbe == [precentage |-> -1, risk |-> Unset]
NoEffects == [patientId |-> 0, notificationId |-> 0, mailed |-> FALSE, payload |-> Unset]

AuthReqs == 1..NumAuthReqs
AdminReqs == 1..NumAdminReqs

\* An authentication request that has not arrived: its handler, the fields of
\* its body, the handler's locals and its response, and what it did.
NoAuth ==
  [op |-> "none", pc |-> "idle", email |-> JUndefined, name |-> JUndefined,
   password |-> JUndefined, role |-> JUndefined, token |-> JUndefined,
   newPassword |-> JUndefined, userRole |-> "", createRole |-> "",
   user |-> Unset, resetToken |-> JUndefined, resetTokenExpiry |-> 0,
   status |-> 0, error |-> <<>>, jwt |-> Unset, changed |-> FALSE, after |-> {}]

ReadReqs == 1..NumReadReqs

\* A request for patient records that has not arrived: its handler, the
\* caller's id, req.params.id, the handler's patientId and its response.
NoRead ==
  [op |-> "none", pc |-> "idle", userId |-> JUndefined, id |-> JUndefined,
   patientId |-> NaN, status |-> 0, error |-> <<>>, json |-> Unset]

\* An admin request that has not arrived.
NoAdmin ==
  [op |-> "none", pc |-> "idle", id |-> JUndefined, patientId |-> NaN,
   patient |-> Unset, status |-> 0,
   deletedPatients |-> {}, deletedNotifications |-> {}]

(***************************************************************************)
(* The inputs.                                                             *)
(***************************************************************************)
\* bcrypt.hash(plain, 10) of a text, and bcrypt.compare(plain, hash).
bcryptHash(plain) == JStr(<<"$2a$10$">> \o plain)
bcryptCompare(plain, hash) == hash = bcryptHash(plain)

AlicePassword == <<"a", "l", "i", "c", "e", "p", "w", "1">>
BobPassword == <<"b", "o", "b", "s", "p", "a", "s", "s", "1">>

UserTable ==
  {[id |-> Text("u1"), name |-> Text("Alice"), email |-> Text("alice@example.org"),
    password |-> bcryptHash(AlicePassword), role |-> "user",
    resetToken |-> JNull, resetTokenExpiry |-> JNull],
   [id |-> Text("u2"), name |-> Text("Bob"), email |-> Text("bob@example.org"),
    password |-> bcryptHash(BobPassword), role |-> "admin",
    resetToken |-> JNull, resetTokenExpiry |-> JNull]}

\* req.user?.userId: absent, empty, a stored user's id, an id of no stored user.
Identities == {JUndefined, JStr(<<>>), Text("u1"), Text("u2"), Text("ghost")}

BodyFields ==
  {"age", "bmi", "insulin", "Pregnancies", "Glucose", "BloodPressure",
   "SkinThickness", "DiabetesPedigreeFunction", "name", "userId"}

RequiredFields == {fieldsToValidate[i] : i \in 1..8}

\* A well-formed body without name and userId.
BaseBody ==
  [f \in BodyFields |->
     CASE f = "age" -> JNum(Fin(450))
       [] f = "bmi" -> JNum(Fin(284))
       [] f = "insulin" -> JNum(Fin(1300))
       [] f = "Pregnancies" -> JNum(Fin(20))
       [] f = "Glucose" -> JNum(Fin(1500))
       [] f = "BloodPressure" -> JNum(Fin(800))
       [] f = "SkinThickness" -> JNum(Fin(300))
       [] f = "DiabetesPedigreeFunction" -> JNum(Fin(5))
       [] OTHER -> JUndefined]

\* The values a field of the body is given.
RawValues ==
  {JUndefined, JNull, JBool(TRUE), JNum(Fin(75)), JNum(Zero), JNum(Inf(1)),
   JStr(<<>>), JStr(<<"a", "b", "c">>), JStr(<<"1", "2", "a">>),
   JStr(<<"7", ".", "9">>), JStr(<<"-", "3">>), JStr(InfinityChars), JStr(<<" ", "5">>)}

\* The values a second field is given: left as it is, absent, not a number.
SecondValues == {JUndefined, JStr(<<"a", "b", "c">>)}

\* The name and userId a body may carry.
Labels == {<<JUndefined, JUndefined>>, <<Text("Mallory"), Text("u2")>>, <<JStr(<<>>), Text("u1")>>}

Bodies ==
  LET One == {[BaseBody EXCEPT ![f] = v] : f \in RequiredFields, v \in RawValues}
      Two == {[b EXCEPT ![f] = v] : b \in One, f \in RequiredFields, v \in SecondValues}
  IN  {[b EXCEPT !["name"] = l[1], !["userId"] = l[2]] : b \in {BaseBody} \cup One \cup Two, l \in Labels}

Requests == {[userId |-> i, body |-> b, present |-> TRUE] : i \in Identities, b \in Bodies}

ModelNames == <<"modelA", "modelB", "modelC", "modelD">>
Confidences == {0, 40, 82}

\* The responses of the prediction service: up to MaxModels entries.
Responses ==
  UNION {[1..n -> BOOLEAN \X Confidences] : n \in 0..MaxModels}

Entries(m) ==
  [i \in 1..Len(m) |-> [model |-> ModelNames[i], prediction |-> m[i][1], precentage |-> m[i][2]]]

(***************************************************************************)
(* The initial state: empty tables but for the users, and one request.     *)
(***************************************************************************)
InitTables ==
  /\ users = UserTable
  /\ patients = {}
  /\ notifications = {}
  /\ outbox = <<>>
  /\ nextPatientId = 1
  /\ nextNotificationId = 1
  /\ nextUserId = Cardinality(UserTable) + 1
  /\ now = 0
  /\ nextToken = 1

\* No request to the authentication handlers or the admin's handlers.
InitIdle ==
  /\ auth = [k \in AuthReqs |-> NoAuth]
  /\ reads = [q \in ReadReqs |-> NoRead]
  /\ admin = [a \in AdminReqs |-> NoAdmin]

InitLocals ==
  /\ pc = [r \in Reqs |-> IF req[r].present THEN "ready" ELSE "idle"]
  /\ user = [r \in Reqs |-> Unset]
  /\ patientData = [r \in Reqs |-> Unset]
  /\ predictionResponse = [r \in Reqs |-> NoPredictionResponse]
  /\ bestModel = [r \in Reqs |-> Unset]
  /\ patient = [r \in Reqs |-> Unset]
  /\ res = [r \in Reqs |-> NoResponse]
  /\ calls = [r \in Reqs |-> NoCalls]
  /\ effects = [r \in Reqs |-> NoEffects]

Init ==
  /\ InitTables
  /\ \E q \in Requests : req = [r \in Reqs |-> IF r = 1 THEN q ELSE NoRequest]
  /\ InitLocals
  /\ InitIdle
  /\ onUserDelete = "Restrict"
  /\ pythonService = Responses
  /\ probe = NoProbe

(***************************************************************************)
(* predict.  One action per stretch of the handler between two awaits: the *)
(* action that resumes after an await also takes the awaited call's        *)
(* outcome and everything the handler does until its next await.           *)
(***************************************************************************)
\* res.status(status).json(...) followed by return: the handler ends.
Reply(r, status, error, json) ==
  /\ res' = [res EXCEPT ![r] = [count |-> @.count + 1, status |-> status,
                                error |-> error, json |-> json]]
  /\ pc' = [pc EXCEPT ![r] = "done"]

\* A variant of the catch block that reports the error with a success status.
CatchRepliesOk(r, message) == Reply(r, 200, message, Unset)

\* The catch block of predict: status 500 with the error's message.
Catch(r, message) == Reply(r, 500, message, Unset)

\* The message of an error the database client throws.
PrismaError == <<"PrismaClientKnownRequestError">>

\* prisma.user.findUnique({where: {id}, select: {name, email}}) on the table.
findUnique(table, id) ==
  IF \E u \in table : u.id = id
  THEN LET u == CHOOSE u \in table : u.id = id
       IN  [found |-> TRUE, name |-> u.name, email |-> u.email]
  ELSE [found |-> FALSE, name |-> JUndefined, email |-> JUndefined]

\* A variant of the overwrite that keeps the name parsed from the body.
OwnedPatientDataKeepsName(parsed, userId, name) ==
  [parsed EXCEPT !.userId = userId]

\* patientData after predict overwrote userId and name.
OwnedPatientData(parsed, userId, name) ==
  [parsed EXCEPT !.userId = userId, !.name = name]

\* A variant that leaves the parsed precentage in place.
ScoredPatientDataStalePrecentage(data, best) ==
  [f \in DOMAIN data \cup {"riskLevel", "recommendation"} |->
     CASE f = "prediction" -> best.prediction
       [] f = "riskLevel" -> getRiskLevel(best.precentage).riskLevel
       [] f = "recommendation" -> getRiskLevel(best.precentage).recommendation
       [] OTHER -> data[f]]

\* patientData after predict stored the outcome and its risk level.
ScoredPatientData(data, best) ==
  [f \in DOMAIN data \cup {"riskLevel", "recommendation"} |->
     CASE f = "prediction" -> best.prediction
       [] f = "precentage" -> best.precentage
       [] f = "riskLevel" -> getRiskLevel(best.precentage).riskLevel
       [] f = "recommendation" -> getRiskLevel(best.precentage).recommendation
       [] OTHER -> data[f]]

\* The Patient table takes a row only with a boolean prediction: the column is
\* required and has no default.
PatientRowValid(data) == data.prediction.t = "boolean"

\* A variant of the stored row whose Id is not taken from the table's serial.
PatientRowSharedId(data, id) ==
  [f \in DOMAIN data \cup {"Id"} |-> IF f = "Id" THEN 1 ELSE data[f]]

\* The Patient table takes a row only if its userId is a stored user's id: the
\* record is owned by exactly one user through a foreign key.
PatientOwnerStored(data) == \E u \in users : u.id = data.userId

\* The row prisma.patient.create stores and returns.
PatientRow(data, id) ==
  [f \in DOMAIN data \cup {"Id"} |-> IF f = "Id" THEN id ELSE data[f]]

\* The row prisma.notification.create stores.
NotificationRow(id, p, riskLevel) ==
  [id |-> id, patientId |-> p.Id,
   message |-> <<"New prediction for ", p.name, ": ", riskLevel, " risk">>,
   isRead |-> FALSE]

\* The mail sendEmailNotification hands to the transporter.
mailOptions(userEmail, patientName, riskLevel, prediction) ==
  [to |-> userEmail,
   subject |-> <<"Patient Prediction Results: ", patientName>>,
   riskLevel |-> riskLevel,
   prediction |-> IF Truthy(prediction) THEN "Diabetic" ELSE "Not Diabetic"]

\* The body of the success response.
SuccessJson(p) ==
  [prediction |-> p.prediction, precentage |-> p.precentage,
   riskLevel |-> p.riskLevel, recommendation |-> p.recommendation]

\* A variant of the handler's start without the identity check.
PredictUnchecked(r) ==
  /\ pc[r] = "ready"
  /\ pc' = [pc EXCEPT ![r] = "findUser"]
  /\ calls' = [calls EXCEPT ![r].findUser = @ + 1]
  /\ UNCHANGED <<users, patients, notifications, outbox, nextPatientId,
                 nextNotificationId, req, user, patientData,
                 predictionResponse, bestModel, patient, res, effects, probe,
                 pythonService, authVars, adminVars, reads>>

\* The handler starts: the identity check, then the user lookup is issued.
Predict(r) ==
  /\ pc[r] = "ready"
  /\ IF ~Truthy(req[r].userId)
     THEN /\ Reply(r, 401, <<"Authentication required">>, Unset)
          /\ UNCHANGED calls
     ELSE /\ pc' = [pc EXCEPT ![r] = "findUser"]
          /\ calls' = [calls EXCEPT ![r].findUser = @ + 1]
          /\ UNCHANGED res
  /\ UNCHANGED <<users, patients, notifications, outbox, nextPatientId,
                 nextNotificationId, req, user, patientData,
                 predictionResponse, bestModel, patient, effects, probe,
                 pythonService, authVars, adminVars, reads>>

\* The user lookup fails.
FindUserRejected(r) ==
  /\ pc[r] = "findUser"
  /\ Catch(r, PrismaError)
  /\ UNCHANGED <<users, patients, notifications, outbox, nextPatientId,
                 nextNotificationId, req, user, patientData,
                 predictionResponse, bestModel, patient, calls, effects, probe,
                 pythonService, authVars, adminVars, reads>>

\* A variant of the lookup's continuation that validates the body before it
\* looks at the lookup's result.
FindUserResolvedValidatesFirst(r) ==
  /\ pc[r] = "findUser"
  /\ LET found == findUnique(users, req[r].userId)
         parsed == parsePatientData(req[r].body)
         data == OwnedPatientData(parsed.value, req[r].userId, found.name)
     IN  IF parsed.thrown
         THEN /\ Catch(r, parsed.message)
              /\ UNCHANGED <<user, patientData, calls, effects>>
         ELSE IF ~found.found
         THEN /\ Reply(r, 404, <<"User not found">>, Unset)
              /\ UNCHANGED <<user, patientData, calls, effects>>
         ELSE /\ user' = [user EXCEPT ![r] = [name |-> found.name, email |-> found.email]]
              /\ patientData' = [patientData EXCEPT ![r] = data]
              /\ calls' = [calls EXCEPT ![r].callPythonService = @ + 1]
              /\ effects' = [effects EXCEPT ![r].payload = data]
              /\ pc' = [pc EXCEPT ![r] = "callPythonService"]
              /\ UNCHANGED res
  /\ UNCHANGED <<users, patients, notifications, outbox, nextPatientId,
                 nextNotificationId, req, predictionResponse, bestModel,
                 patient, probe,
                 pythonService, authVars, adminVars, reads>>

\* The user lookup answers: not found, or validation, then the gateway call is issued.
FindUserResolved(r) ==
  /\ pc[r] = "findUser"
  /\ LET found == findUnique(users, req[r].userId)
         parsed == parsePatientData(req[r].body)
         data == OwnedPatientData(parsed.value, req[r].userId, found.name)
     IN  IF ~found.found
         THEN /\ Reply(r, 404, <<"User not found">>, Unset)
              /\ UNCHANGED <<user, patientData, calls, effects>>
         ELSE /\ user' = [user EXCEPT ![r] = [name |-> found.name, email |-> found.email]]
              /\ IF parsed.thrown
                 THEN /\ Catch(r, parsed.message)
                      /\ UNCHANGED <<patientData, calls, effects>>
                 ELSE /\ patientData' = [patientData EXCEPT ![r] = data]
                      /\ calls' = [calls EXCEPT ![r].callPythonService = @ + 1]
                      /\ effects' = [effects EXCEPT ![r].payload = data]
                      /\ pc' = [pc EXCEPT ![r] = "callPythonService"]
                      /\ UNCHANGED res
  /\ UNCHANGED <<users, patients, notifications, outbox, nextPatientId,
                 nextNotificationId, req, predictionResponse, bestModel,
                 patient, probe,
                 pythonService, authVars, adminVars, reads>>

\* A variant of the gateway failure that calls the gateway a second time.
CallPythonServiceRejectedRetries(r) ==
  /\ pc[r] = "callPythonService"
  /\ IF calls[r].callPythonService < 2
     THEN /\ calls' = [calls EXCEPT ![r].callPythonService = @ + 1]
          /\ UNCHANGED <<pc, res>>
     ELSE /\ Catch(r, <<"Prediction service unavailable. Please try again later.">>)
          /\ UNCHANGED calls
  /\ UNCHANGED <<users, patients, notifications, outbox, nextPatientId,
                 nextNotificationId, req, user, patientData,
                 predictionResponse, bestModel, patient, effects, probe,
                 pythonService, authVars, adminVars, reads>>

\* The gateway call fails: timeout, no connection, a non-success status.
CallPythonServiceRejected(r) ==
  /\ pc[r] = "callPythonService"
  /\ Catch(r, <<"Prediction service unavailable. Please try again later.">>)
  /\ UNCHANGED <<users, patients, notifications, outbox, nextPatientId,
                 nextNotificationId, req, user, patientData,
                 predictionResponse, bestModel, patient, calls, effects, probe,
                 pythonService, authVars, adminVars, reads>>

\* The gateway answers with an empty body (response.data is falsy).
CallPythonServiceEmpty(r) ==
  /\ pc[r] = "callPythonService"
  /\ predictionResponse' = [predictionResponse EXCEPT ![r] = [kind |-> "falsy", entries |-> <<>>]]
  /\ Catch(r, <<"Prediction service unavailable">>)
  /\ UNCHANGED bestModel
  /\ UNCHANGED <<users, patients, notifications, outbox, nextPatientId,
                 nextNotificationId, req, user, patientData, patient, calls,
                 effects, probe,
                 pythonService, authVars, adminVars, reads>>

\* The gateway answers with a mapping: selection, risk level, then the
\* patient record's creation is issued.
CallPythonServiceResolved(r) ==
  /\ pc[r] = "callPythonService"
  /\ \E m \in pythonService :
       /\ predictionResponse' = [predictionResponse EXCEPT ![r] = [kind |-> "object", entries |-> Entries(m)]]
       /\ bestModel' = [bestModel EXCEPT ![r] = reduceBestModel(Entries(m))]
       /\ patientData' = [patientData EXCEPT ![r] = ScoredPatientData(@, reduceBestModel(Entries(m)))]
  /\ IF ~Truthy(patientData[r].userId)
     THEN /\ Catch(r, <<"Patient data and userId are required.">>)
          /\ UNCHANGED calls
     ELSE /\ calls' = [calls EXCEPT ![r].createPatient = @ + 1]
          /\ pc' = [pc EXCEPT ![r] = "createPatient"]
          /\ UNCHANGED res
  /\ UNCHANGED <<users, patients, notifications, outbox, nextPatientId,
                 nextNotificationId, req, user, patient, effects, probe,
                 pythonService, authVars, adminVars, reads>>

\* The patient record's creation fails.
CreatePatientRejected(r) ==
  /\ pc[r] = "createPatient"
  /\ Catch(r, <<"Failed to create patient.">>)
  /\ UNCHANGED <<users, patients, notifications, outbox, nextPatientId,
                 nextNotificationId, req, user, patientData,
                 predictionResponse, bestModel, patient, calls, effects, probe,
                 pythonService, authVars, adminVars, reads>>

\* The patient record is stored; the notification's creation is issued.
CreatePatientResolved(r) ==
  /\ pc[r] = "createPatient"
  /\ PatientRowValid(patientData[r])
  /\ PatientOwnerStored(patientData[r])
  /\ LET row == PatientRow(patientData[r], nextPatientId)
     IN  /\ patients' = patients \cup {row}
         /\ patient' = [patient EXCEPT ![r] = row]
         /\ effects' = [effects EXCEPT ![r].patientId = row.Id]
  /\ nextPatientId' = nextPatientId + 1
  /\ calls' = [calls EXCEPT ![r].createNotification = @ + 1]
  /\ pc' = [pc EXCEPT ![r] = "createNotification"]
  /\ UNCHANGED <<users, notifications, outbox, nextNotificationId, req, user,
                 patientData, predictionResponse, bestModel, res, probe,
                 pythonService, authVars, adminVars, reads>>

\* A variant of the notification failure that goes on to send the mail.
CreateNotificationRejectedIgnored(r) ==
  /\ pc[r] = "createNotification"
  /\ calls' = [calls EXCEPT ![r].sendMail = @ + 1]
  /\ pc' = [pc EXCEPT ![r] = "sendMail"]
  /\ UNCHANGED <<users, patients, notifications, outbox, nextPatientId,
                 nextNotificationId, req, user, patientData,
                 predictionResponse, bestModel, patient, res, effects, probe,
                 pythonService, authVars, adminVars, reads>>

\* A variant of the notification failure that deletes the patient record again.
CreateNotificationRejectedRollsBack(r) ==
  /\ pc[r] = "createNotification"
  /\ Catch(r, PrismaError)
  /\ patients' = {p \in patients : p.Id # patient[r].Id}
  /\ UNCHANGED <<users, notifications, outbox, nextPatientId,
                 nextNotificationId, req, user, patientData,
                 predictionResponse, bestModel, patient, calls, effects, probe,
                 pythonService, authVars, adminVars, reads>>

\* The notification's creation fails.
CreateNotificationRejected(r) ==
  /\ pc[r] = "createNotification"
  /\ Catch(r, PrismaError)
  /\ UNCHANGED <<users, patients, notifications, outbox, nextPatientId,
                 nextNotificationId, req, user, patientData,
                 predictionResponse, bestModel, patient, calls, effects, probe,
                 pythonService, authVars, adminVars, reads>>

\* The notification is stored (its patient must exist: the foreign key); the
\* mail is handed to the transporter.
CreateNotificationResolved(r) ==
  /\ pc[r] = "createNotification"
  /\ \E p \in patients : p.Id = patient[r].Id
  /\ notifications' = notifications
       \cup {NotificationRow(nextNotificationId, patient[r], patientData[r].riskLevel)}
  /\ effects' = [effects EXCEPT ![r].notificationId = nextNotificationId]
  /\ nextNotificationId' = nextNotificationId + 1
  /\ calls' = [calls EXCEPT ![r].sendMail = @ + 1]
  /\ pc' = [pc EXCEPT ![r] = "sendMail"]
  /\ UNCHANGED <<users, patients, outbox, nextPatientId, req, user,
                 patientData, predictionResponse, bestModel, patient, res,
                 probe,
                 pythonService, authVars, adminVars, reads>>

\* A variant of the mail failure that is swallowed: predict answers as on success.
SendMailRejectedSwallowed(r) ==
  /\ pc[r] = "sendMail"
  /\ Reply(r, 200, <<>>, SuccessJson(patient[r]))
  /\ UNCHANGED <<users, patients, notifications, outbox, nextPatientId,
                 nextNotificationId, req, user, patientData,
                 predictionResponse, bestModel, patient, calls, effects, probe,
                 pythonService, authVars, adminVars, reads>>

\* A variant of the mail failure that deletes the notification again.
SendMailRejectedRollsBack(r) ==
  /\ pc[r] = "sendMail"
  /\ Catch(r, <<"Failed to send email notification">>)
  /\ notifications' = {n \in notifications : n.id # effects[r].notificationId}
  /\ UNCHANGED <<users, patients, outbox, nextPatientId,
                 nextNotificationId, req, user, patientData,
                 predictionResponse, bestModel, patient, calls, effects, probe,
                 pythonService, authVars, adminVars, reads>>

\* The transporter fails: sendEmailNotification rethrows.
SendMailRejected(r) ==
  /\ pc[r] = "sendMail"
  /\ Catch(r, <<"Failed to send email notification">>)
  /\ UNCHANGED <<users, patients, notifications, outbox, nextPatientId,
                 nextNotificationId, req, user, patientData,
                 predictionResponse, bestModel, patient, calls, effects, probe,
                 pythonService, authVars, adminVars, reads>>

\* The mail is delivered; predict responds with the stored record's outcome.
SendMailResolved(r) ==
  /\ pc[r] = "sendMail"
  /\ outbox' = Append(outbox, mailOptions(user[r].email, patient[r].name,
                                          patient[r].riskLevel, patient[r].prediction))
  /\ effects' = [effects EXCEPT ![r].mailed = TRUE]
  /\ Reply(r, 200, <<>>, SuccessJson(patient[r]))
  /\ UNCHANGED <<users, patients, notifications, nextPatientId,
                 nextNotificationId, req, user, patientData,
                 predictionResponse, bestModel, patient, calls, probe,
                 pythonService, authVars, adminVars, reads>>

\* One step of the handler of request r.
PredictStep(r) ==
    \/ Predict(r)
    \/ FindUserRejected(r)
    \/ FindUserResolved(r)
    \/ CallPythonServiceRejected(r)
    \/ CallPythonServiceEmpty(r)
    \/ CallPythonServiceResolved(r)
    \/ CreatePatientRejected(r)
    \/ CreatePatientResolved(r)
    \/ CreateNotificationRejected(r)
    \/ CreateNotificationResolved(r)
    \/ SendMailRejected(r)
    \/ SendMailResolved(r)

Next == \E r \in Reqs : PredictStep(r)

Spec == Init /\ [][Next]_vars

(***************************************************************************)
(* getRiskLevel on its own: a confidence value is drawn and classified.    *)
(***************************************************************************)
InitRisk ==
  /\ InitTables
  /\ req = [r \in Reqs |-> NoRequest]
  /\ InitLocals
  /\ InitIdle
  /\ onUserDelete = "Restrict"
  /\ pythonService = Responses
  /\ \E p \in 0..MaxProbe : probe = [precentage |-> p, risk |-> Unset]

Classify ==
  /\ probe.precentage >= 0
  /\ probe.risk = Unset
  /\ probe' = [probe EXCEPT !.risk = getRiskLevel(probe.precentage)]
  /\ UNCHANGED <<users, patients, notifications, outbox, nextPatientId,
                 nextNotificationId, pc, req, user, patientData,
                 predictionResponse, bestModel, patient, res, calls, effects,
                 pythonService, authVars, adminVars, reads>>

SpecRisk == InitRisk /\ [][Classify]_vars

(***************************************************************************)
(* Concurrent submissions: every request slot holds a well-formed           *)
(* submission of a stored user, and the prediction service answers with a  *)
(* single model of high confidence.                                        *)
(***************************************************************************)
ConcResponses == {m \in Responses : Len(m) = 1 /\ m[1][2] = 82}

InitConc ==
  /\ InitTables
  /\ req \in [Reqs -> {[userId |-> u.id, body |-> BaseBody, present |-> TRUE] : u \in UserTable}]
  /\ InitLocals
  /\ InitIdle
  /\ onUserDelete = "Restrict"
  /\ pythonService = ConcResponses
  /\ probe = NoProbe

SpecConc == InitConc /\ [][Next]_vars

(***************************************************************************)
(* Properties.                                                             *)
(***************************************************************************)
\* The request has a gateway response with entries and predict has selected.
Selected(r) == predictionResponse[r].kind = "object"

Max(S) == CHOOSE x \in S : \A y \in S : y <= x
MaxConfidence(entries) == Max({entries[i].precentage : i \in 1..Len(entries)})
FirstMaximal(entries) ==
  entries[CHOOSE i \in 1..Len(entries) :
            /\ entries[i].precentage = MaxConfidence(entries)
            /\ \A j \in 1..(i - 1) : entries[j].precentage # MaxConfidence(entries)]
AsOutcome(entry) ==
  [model |-> Text(entry.model), prediction |-> JBool(entry.prediction),
   precentage |-> entry.precentage]

C2_RiskBands ==
  (probe.risk # Unset /\ probe.precentage \in 0..100) =>
    /\ probe.precentage \in 0..39 => probe.risk.riskLevel = "Low"
    /\ probe.precentage \in 40..69 => probe.risk.riskLevel = "Moderate"
    /\ probe.precentage \in 70..89 => probe.risk.riskLevel = "High"
    /\ probe.precentage \in 90..100 => probe.risk.riskLevel = "Critical"

\* C2 witness: the boundary 70 is classified, as High.
C2_BoundaryWitness ==
  /\ probe.precentage = 70
  /\ probe.risk # Unset
  /\ probe.risk.riskLevel = "High"

\* C3 as stated: when the gateway returns an empty mapping, the outcome predict
\* hands to persistence, stores and returns has confidence 0, prediction flag
\* false and risk level Low.
C3_EmptyMappingFloor ==
  \A r \in Reqs :
    (Selected(r) /\ predictionResponse[r].entries = <<>>) =>
      /\ patientData[r].precentage = 0
      /\ patientData[r].prediction = JBool(FALSE)
      /\ patientData[r].riskLevel = "Low"
      /\ pc[r] = "done" =>
           /\ res[r].status = 200
           /\ res[r].json.precentage = 0
           /\ res[r].json.prediction = JBool(FALSE)
           /\ res[r].json.riskLevel = "Low"

\* The fixed order of the required fields.
RequiredOrder ==
  <<"age", "bmi", "insulin", "Pregnancies", "Glucose",
    "BloodPressure", "SkinThickness", "DiabetesPedigreeFunction">>

\* A field's value is missing, or is non-numeric: it converts to no number.
MissingOrNonNumeric(x) == x = JUndefined \/ ToNumber(x) = NaN

Offending(body) == {i \in 1..Len(RequiredOrder) : MissingOrNonNumeric(body[RequiredOrder[i]])}
FirstOffending(body) ==
  RequiredOrder[CHOOSE i \in Offending(body) : \A j \in Offending(body) : i <= j]

\* The request r invoked no collaborator after the user lookup and left nothing behind.
NothingBeyondLookup(r) ==
  /\ calls[r].callPythonService = 0
  /\ calls[r].createPatient = 0
  /\ calls[r].createNotification = 0
  /\ calls[r].sendMail = 0
  /\ effects[r] = NoEffects

NoIdentity(r) == req[r].userId \in {JUndefined, JNull, JStr(<<>>)}

\* C5: a request without a verified identity carrying a user id gets the 401
\* response, and no database read, gateway call or write is made for it, neither
\* before nor after the response.
C5_Unauthenticated ==
  \A r \in Reqs :
    (req[r].present /\ NoIdentity(r)) =>
      /\ calls[r] = NoCalls
      /\ effects[r] = NoEffects
      /\ patients = {} /\ notifications = {} /\ outbox = <<>>
      /\ pc[r] \in {"ready", "done"}
      /\ pc[r] = "done" =>
           /\ res[r].status = 401
           /\ res[r].error = <<"Authentication required">>

\* C5 witness: a request without identity was answered.
C5_Witness ==
  \E r \in Reqs :
    /\ req[r].present
    /\ req[r].userId = JUndefined
    /\ pc[r] = "done"
    /\ res[r].status = 401

\* The creation of r's patient record was issued and failed.
CreatePatientFailed(r) ==
  /\ calls[r].createPatient >= 1
  /\ pc[r] # "createPatient"
  /\ effects[r].patientId = 0

\* C6: if creating the patient record fails after a successful gateway call,
\* predict responds with a failure, no notification is created and no email is sent.
C6_PersistenceFailure ==
  \A r \in Reqs :
    CreatePatientFailed(r) =>
      /\ pc[r] = "done"
      /\ res[r].status = 500
      /\ calls[r].createNotification = 0
      /\ calls[r].sendMail = 0
      /\ effects[r].notificationId = 0
      /\ ~effects[r].mailed
      /\ notifications = {} /\ outbox = <<>>

\* C6 witness: the gateway answered with a usable outcome and the record's
\* creation failed.
C6_Witness ==
  \E r \in Reqs :
    /\ CreatePatientFailed(r)
    /\ Selected(r)
    /\ bestModel[r].precentage = 82
    /\ PatientRowValid(patientData[r])
    /\ res[r].error = <<"Failed to create patient.">>

\* The stored profile name of the user with this id.
ProfileName(id) == (CHOOSE u \in UserTable : u.id = id).name

\* C7: every patient record predict creates carries the authenticated user's
\* profile name and id, whatever name and userId the body supplies, and so does
\* the data sent to the gateway.
C7_OwnerAndNameOverwritten ==
  /\ \A r \in Reqs :
       calls[r].callPythonService >= 1 =>
         /\ effects[r].payload.userId = req[r].userId
         /\ effects[r].payload.name = ProfileName(req[r].userId)
  /\ \A p \in patients :
       \E r \in Reqs :
         /\ effects[r].patientId = p.Id
         /\ p.userId = req[r].userId
         /\ p.name = ProfileName(req[r].userId)

\* C7 witness: the body names another user and another name, and a record owned
\* by the authenticated user was created.
C7_SpoofWitness ==
  \E r \in Reqs : \E p \in patients :
    /\ req[r].userId = Text("u1")
    /\ req[r].body["name"] = Text("Mallory")
    /\ req[r].body["userId"] = Text("u2")
    /\ effects[r].patientId = p.Id
    /\ p.name = Text("Alice")
    /\ p.userId = Text("u1")

\* The gateway call of r was issued and failed.
GatewayFailed(r) ==
  /\ calls[r].callPythonService >= 1
  /\ pc[r] # "callPythonService"
  /\ predictionResponse[r].kind = "none"

\* C8: if the gateway call fails, predict ends with a failure response, the
\* gateway is not called again and no patient record, notification or email is
\* created.
C8_GatewayFailure ==
  \A r \in Reqs :
    /\ calls[r].callPythonService <= 1
    /\ GatewayFailed(r) =>
         /\ pc[r] = "done"
         /\ res[r].status = 500
         /\ calls[r].createPatient = 0
         /\ calls[r].createNotification = 0
         /\ calls[r].sendMail = 0
         /\ effects[r].patientId = 0
         /\ effects[r].notificationId = 0
         /\ ~effects[r].mailed
         /\ patients = {} /\ notifications = {} /\ outbox = <<>>

\* C8 witness: the gateway call failed and predict answered.
C8_Witness ==
  \E r \in Reqs :
    /\ GatewayFailed(r)
    /\ res[r].error = <<"Prediction service unavailable. Please try again later.">>

\* C9 as stated: whenever predict reaches the gateway call, every numeric field
\* of the coerced submission (Age, BMI, Insulin, Pregnancies, Glucose,
\* BloodPressure, SkinThickness, DiabetesPedigreeFunction) is a finite number.
C9_FiniteAtGateway ==
  \A r \in Reqs :
    calls[r].callPythonService >= 1 =>
      \A f \in NumericFields : IsFinite(effects[r].payload[f])

\* C10: on full success predict responds with prediction, precentage, riskLevel
\* and recommendation, the first two those of the selected outcome and the last
\* two getRiskLevel of its confidence, and the patient record the submission
\* created stores the same four values.
C10_SuccessResponse ==
  \A r \in Reqs :
    (pc[r] = "done" /\ res[r].status = 200) =>
      /\ res[r].json =
           [prediction |-> bestModel[r].prediction,
            precentage |-> bestModel[r].precentage,
            riskLevel |-> getRiskLevel(bestModel[r].precentage).riskLevel,
            recommendation |-> getRiskLevel(bestModel[r].precentage).recommendation]
      /\ \E p \in patients :
           /\ p.Id = effects[r].patientId
           /\ SuccessJson(p) = res[r].json

\* C10 witness: a submission succeeded with the outcome of the second of two entries.
C10_Witness ==
  \E r \in Reqs :
    /\ pc[r] = "done"
    /\ res[r].status = 200
    /\ Len(predictionResponse[r].entries) = 2
    /\ bestModel[r].model = Text("modelB")
    /\ res[r].json.prediction = JBool(TRUE)
    /\ res[r].json.precentage = 82
    /\ res[r].json.riskLevel = "High"

\* Every step of the submission r achieved what it was called for.
AllStepsSucceeded(r) ==
  /\ user[r] # Unset
  /\ Selected(r)
  /\ effects[r].patientId # 0
  /\ effects[r].notificationId # 0
  /\ effects[r].mailed

\* C11: every invocation of predict ends with exactly one response: a handler
\* that has not responded can take a step, one that has responded has done so
\* once and takes no more; a submission in which any step failed is answered
\* with a failure; and each collaborator is invoked at most once per submission.
C11_OneResponseNoRetry ==
  \A r \in Reqs :
    req[r].present =>
      /\ res[r].count <= 1
      /\ pc[r] = "done" <=> res[r].count = 1
      /\ pc[r] # "done" => ENABLED PredictStep(r)
      /\ pc[r] = "done" => ~ENABLED PredictStep(r)
      /\ (pc[r] = "done" /\ ~AllStepsSucceeded(r)) =>
           /\ res[r].status \in {401, 404, 500}
           /\ res[r].error # <<>>
      /\ (pc[r] = "done" /\ AllStepsSucceeded(r)) => res[r].status = 200
      /\ calls[r].findUser <= 1
      /\ calls[r].callPythonService <= 1
      /\ calls[r].createPatient <= 1
      /\ calls[r].createNotification <= 1
      /\ calls[r].sendMail <= 1

\* C11 witness: the mail could not be sent, the last of the steps, and predict
\* answered once, with a failure.
C11_Witness ==
  \E r \in Reqs :
    /\ pc[r] = "done"
    /\ calls[r].sendMail = 1
    /\ ~effects[r].mailed
    /\ res[r].count = 1
    /\ res[r].status = 500

\* C12: the steps of a submission occur in the order user lookup, validation,
\* gateway call, patient record, notification, email, response, each started
\* only after every earlier one succeeded; no notification exists without its
\* patient record and no mail was sent without a notification.
C12_StrictOrder ==
  /\ \A r \in Reqs :
       /\ calls[r].callPythonService >= 1 =>
            /\ calls[r].findUser = 1
            /\ user[r] # Unset
            /\ Offending(req[r].body) = {}
       /\ calls[r].createPatient >= 1 =>
            /\ calls[r].callPythonService = 1
            /\ Selected(r)
       /\ calls[r].createNotification >= 1 =>
            /\ calls[r].createPatient = 1
            /\ effects[r].patientId # 0
       /\ calls[r].sendMail >= 1 =>
            /\ calls[r].createNotification = 1
            /\ effects[r].notificationId # 0
       /\ res[r].status = 200 =>
            /\ calls[r].sendMail = 1
            /\ effects[r].mailed
  /\ \A n \in notifications : \E p \in patients : p.Id = n.patientId
  /\ Len(outbox) <= Cardinality(notifications)

\* C12 witness: a submission went through every step.
C12_Witness ==
  \E r \in Reqs :
    /\ res[r].status = 200
    /\ calls[r] = [findUser |-> 1, callPythonService |-> 1, createPatient |-> 1,
                   createNotification |-> 1, sendMail |-> 1]
    /\ Len(outbox) = 1

\* The creation of r's notification was issued and failed.
NotificationFailed(r) ==
  /\ calls[r].createNotification >= 1
  /\ pc[r] # "createNotification"
  /\ effects[r].notificationId = 0

\* The patient record r created is stored.
PatientStored(r) ==
  /\ effects[r].patientId # 0
  /\ \E p \in patients : p.Id = effects[r].patientId /\ p = patient[r]

\* C13: if the notification's creation fails after the patient record was
\* created, predict responds with a failure, sends no email, and the patient
\* record remains stored.
C13_NotificationFailure ==
  \A r \in Reqs :
    NotificationFailed(r) =>
      /\ pc[r] = "done"
      /\ res[r].status = 500
      /\ calls[r].sendMail = 0
      /\ ~effects[r].mailed
      /\ outbox = <<>>
      /\ PatientStored(r)

\* C13 witness: a failure response next to the stored record of the submission.
C13_Witness ==
  \E r \in Reqs :
    /\ NotificationFailed(r)
    /\ res[r].status = 500
    /\ patients # {}

\* The mail of r was handed to the transporter, which failed.
MailFailed(r) ==
  /\ calls[r].sendMail >= 1
  /\ pc[r] # "sendMail"
  /\ ~effects[r].mailed

\* C14: if sending the email fails after the patient record and the notification
\* were created, predict responds with a failure and both remain stored.
C14_MailFailure ==
  \A r \in Reqs :
    MailFailed(r) =>
      /\ pc[r] = "done"
      /\ res[r].status = 500
      /\ PatientStored(r)
      /\ \E n \in notifications :
           /\ n.id = effects[r].notificationId
           /\ n.patientId = effects[r].patientId

\* C14 witness: the failure response of a submission whose mail failed.
C14_Witness ==
  \E r \in Reqs :
    /\ MailFailed(r)
    /\ res[r].error = <<"Failed to send email notification">>
    /\ notifications # {}

\* The request carries a user id that no stored user has.
UnknownUser(r) ==
  /\ req[r].present
  /\ ~NoIdentity(r)
  /\ \A u \in UserTable : u.id # req[r].userId

\* C15: if the verified user id resolves to no user record, predict ends with
\* the 404 response User not found, which differs from the 401 response, and
\* neither validation nor gateway call, patient record, notification or email
\* happens; the only other end is the failure of the lookup itself.
C15_UserNotFound ==
  \A r \in Reqs :
    UnknownUser(r) =>
      /\ NothingBeyondLookup(r)
      /\ user[r] = Unset
      /\ patientData[r] = Unset
      /\ pc[r] \in {"ready", "findUser", "done"}
      /\ pc[r] = "done" =>
           \/ /\ res[r].status = 404
              /\ res[r].error = <<"User not found">>
           \/ /\ res[r].status = 500
              /\ res[r].error = PrismaError

\* C15 witness: an unknown user with a body that validation would reject got
\* the 404 response.
C15_Witness ==
  \E r \in Reqs :
    /\ UnknownUser(r)
    /\ Offending(req[r].body) # {}
    /\ res[r].status = 404

\* The fields of the record parsePatientData returns, in the order of the
\* body's fields they are parsed from, and those parsed as integers.
CoercedOrder ==
  <<"Age", "BMI", "Insulin", "Pregnancies", "Glucose",
    "BloodPressure", "SkinThickness", "DiabetesPedigreeFunction">>
IntegerFields == {"Age", "Pregnancies"}

\* A value that is present and converts to a number, but holds no numeric
\* text to parse: null, a boolean, an empty or blank string.
PresentUnparseable(x) ==
  \/ x.t = "null"
  \/ x.t = "boolean"
  \/ x.t = "string" /\ TrimLeft(x.s) = <<>>

\* The request r reached validation and its body was accepted.
Accepted(r) == user[r] # Unset /\ calls[r].callPythonService = 1

\* C17: a body whose required fields all pass the presence/NaN check is
\* accepted once its user is found; a field given as null, a boolean, an empty
\* string or zero reaches the gateway as 0; Age and Pregnancies reach it as
\* integers, a non-negative fractional number being cut to its integer part.
C17_CoercedToZero ==
  \A r \in Reqs :
    /\ (user[r] # Unset /\ Offending(req[r].body) = {}) => Accepted(r)
    /\ Accepted(r) =>
         \A i \in 1..Len(RequiredOrder) :
           LET x == req[r].body[RequiredOrder[i]]
               y == effects[r].payload[CoercedOrder[i]]
           IN  /\ (PresentUnparseable(x) \/ x = JNum(Zero)) => y = Zero
               /\ CoercedOrder[i] \in IntegerFields =>
                    /\ y.k = "fin" => y.v % Radix = 0
                    /\ (x.t = "number" /\ x.n.k = "fin" /\ x.n.v >= 0) =>
                         y = Fin((x.n.v \div Radix) * Radix)

\* C17 witness: an accepted submission that carried null in a field, or the
\* fractional number 7.5 in an integer field.
C17_Witness ==
  \E r \in Reqs :
    /\ Accepted(r)
    /\ \/ /\ req[r].body["Glucose"] = JNull
          /\ effects[r].payload["Glucose"] = Zero
       \/ /\ req[r].body["age"] = JNum(Fin(75))
          /\ effects[r].payload["Age"] = Fin(70)

\* The submissions that created a patient record, a notification.
CreatedPatient == {r \in Reqs : effects[r].patientId # 0}
CreatedNotification == {r \in Reqs : effects[r].notificationId # 0}

\* C16: under any interleaving of concurrent submissions each successful one
\* has created exactly one patient record and exactly one notification, which
\* references that record; the records of different submissions are different
\* records, nothing else is in the tables, and every record any submission
\* created is stored as it was created.
C16_IndependentRecords ==
  /\ \A r \in Reqs :
       res[r].status = 200 =>
         /\ r \in CreatedPatient /\ r \in CreatedNotification
         /\ Cardinality({p \in patients : p.Id = effects[r].patientId}) = 1
         /\ Cardinality({n \in notifications : n.patientId = effects[r].patientId}) = 1
         /\ \A n \in notifications :
              n.patientId = effects[r].patientId <=> n.id = effects[r].notificationId
  /\ \A r, s \in CreatedPatient : r # s => effects[r].patientId # effects[s].patientId
  /\ \A r, s \in CreatedNotification :
       r # s => effects[r].notificationId # effects[s].notificationId
  /\ Cardinality(patients) = Cardinality(CreatedPatient)
  /\ Cardinality(notifications) = Cardinality(CreatedNotification)
  /\ \A r \in CreatedPatient :
       /\ patient[r] \in patients
       /\ patient[r].Id = effects[r].patientId
       /\ patient[r].userId = req[r].userId
  /\ \A r \in CreatedNotification :
       \E n \in notifications :
         /\ n.id = effects[r].notificationId
         /\ n.patientId = effects[r].patientId
         /\ ~n.isRead

\* C16 witness: two submissions of the same user, whose steps interleaved,
\* both succeeded.
C16_Witness ==
  \E r, s \in Reqs :
    /\ r # s
    /\ req[r].userId = req[s].userId
    /\ res[r].status = 200 /\ res[s].status = 200
    /\ effects[r].patientId < effects[s].patientId
    /\ effects[s].notificationId < effects[r].notificationId

(***************************************************************************)
(* forgotPassword and resetPassword.  One action per stretch between two   *)
(* awaits; the hashing is taken together with the database call after it.  *)
(***************************************************************************)
\* The variables of predict other than the tables.
predictLocals ==
  <<outbox, nextPatientId, nextNotificationId, pc, req, user, patientData,
    predictionResponse, bestModel, patient, res, calls, effects, pythonService,
    probe>>

\* The emails a request may name: a stored user's and no user's.
Emails == {Text("alice@example.org"), Text("nobody@example.org")}

\* The new passwords a request may carry: too short, and two long enough.
NewPasswords ==
  {<<"s", "h", "o", "r", "t">>,
   <<"n", "e", "w", "p", "a", "s", "s", "1">>,
   <<"n", "e", "w", "p", "a", "s", "s", "2", "2">>}

\* crypto.randomBytes(32).toString("hex"): a text no earlier call returned.
Token(n) == JStr(<<"r">> \o NatToChars(n))

\* Date.now() + 3600000, with the clock in hours.
ResetTokenLifetime == 1

\* A Date read from the database, and its getTime().
JDate(time) == [t |-> "date", b |-> FALSE, n |-> Fin(time * Radix), s |-> <<>>]
getTime(date) == date.n.v \div Radix

\* checkIfFound: the row queries.findUserByEmail finds, or null.
checkIfFound(table, email) ==
  IF \E u \in table : u.email = email
  THEN CHOOSE u \in table : u.email = email
  ELSE JNull

\* queries.updateUser(id, data): the table with the row's fields overwritten.
updateUser(table, id, data) ==
  {IF u.id = id
   THEN [f \in DOMAIN u |-> IF f \in DOMAIN data THEN data[f] ELSE u[f]]
   ELSE u : u \in table}

\* res.status(status).json(...) of an authentication handler.
AuthReplied(a, status, error) ==
  [a EXCEPT !.status = status, !.error = error, !.pc = "done"]

\* The tokens forgotPassword has handed out.
DisclosedTokens ==
  {auth[j].resetToken :
     j \in {i \in AuthReqs : auth[i].op = "forgotPassword" /\ auth[i].status = 200}}

\* A request to forgotPassword arrives: initiatePasswordReset looks the user up.
ForgotPassword(k) ==
  /\ auth[k].op = "none"
  /\ \E e \in Emails :
       auth' = [auth EXCEPT ![k] =
                  [@ EXCEPT !.op = "forgotPassword", !.email = e, !.pc = "checkIfFound"]]
  /\ UNCHANGED <<users, now, nextToken, nextUserId, patients, notifications,
                 predictLocals, adminVars, reads>>

\* initiatePasswordReset after its lookup: the token and its expiry are made
\* and the update of the user is issued.
InitiateLookupResolved(k) ==
  /\ auth[k].op = "forgotPassword"
  /\ auth[k].pc = "checkIfFound"
  /\ LET found == checkIfFound(users, auth[k].email)
     IN  IF found = JNull
         THEN /\ auth' = [auth EXCEPT ![k] =
                            AuthReplied(@, 400, <<"Password reset failed: ", "User not found">>)]
              /\ UNCHANGED nextToken
         ELSE /\ auth' = [auth EXCEPT ![k] =
                            [@ EXCEPT !.user = found,
                                      !.resetToken = Token(nextToken),
                                      !.resetTokenExpiry = now + ResetTokenLifetime,
                                      !.pc = "updateUser"]]
              /\ nextToken' = nextToken + 1
  /\ UNCHANGED <<users, now, nextUserId, patients, notifications,
                 predictLocals, adminVars, reads>>

\* The hash of the token and its expiry are stored; forgotPassword responds.
InitiateUpdateResolved(k) ==
  /\ auth[k].op = "forgotPassword"
  /\ auth[k].pc = "updateUser"
  /\ \E u \in users : u.id = auth[k].user.id
  /\ users' = updateUser(users, auth[k].user.id,
                         [resetToken |-> bcryptHash(auth[k].resetToken.s),
                          resetTokenExpiry |-> JDate(auth[k].resetTokenExpiry)])
  /\ auth' = [auth EXCEPT ![k] = AuthReplied(@, 200, <<>>)]
  /\ UNCHANGED <<now, nextToken, nextUserId, patients, notifications,
                 predictLocals, adminVars, reads>>

\* A request to resetPassword arrives: verifyPasswordResetToken looks the user
\* up. The request remembers the successful resets of its token that had
\* responded before it arrived.
ResetPassword(k) ==
  /\ auth[k].op = "none"
  /\ \E e \in Emails, t \in DisclosedTokens \cup {Text("forged")}, p \in NewPasswords :
       auth' = [auth EXCEPT ![k] =
                  [@ EXCEPT !.op = "resetPassword", !.email = e, !.token = t,
                            !.newPassword = JStr(p), !.pc = "verifyLookup",
                            !.after = {j \in AuthReqs : /\ auth[j].op = "resetPassword"
                                                        /\ auth[j].status = 200
                                                        /\ auth[j].token = t}]]
  /\ UNCHANGED <<users, now, nextToken, nextUserId, patients, notifications,
                 predictLocals, adminVars, reads>>

\* verifyPasswordResetToken after its lookup: the stored token must be set and
\* not expired; then the presented token is compared with it.
VerifyLookupResolved(k) ==
  /\ auth[k].op = "resetPassword"
  /\ auth[k].pc = "verifyLookup"
  /\ LET found == checkIfFound(users, auth[k].email)
         failed(message) ==
           auth' = [auth EXCEPT ![k] =
                      AuthReplied(@, 400, <<"Token verification failed: ", message>>)]
     IN  IF found = JNull
         THEN failed("User not found")
         ELSE IF ~Truthy(found.resetToken) \/ ~Truthy(found.resetTokenExpiry)
         THEN failed("Invalid reset token")
         ELSE IF now > getTime(found.resetTokenExpiry)
         THEN failed("Reset token has expired")
         ELSE auth' = [auth EXCEPT ![k] = [@ EXCEPT !.user = found, !.pc = "compare"]]
  /\ UNCHANGED <<users, now, nextToken, nextUserId, patients, notifications,
                 predictLocals, adminVars, reads>>

\* The comparison is done: verifyPasswordResetToken returns or throws, and
\* updateUserPassword checks the new password and looks the user up.
VerifyCompareResolved(k) ==
  /\ auth[k].op = "resetPassword"
  /\ auth[k].pc = "compare"
  /\ IF ~bcryptCompare(auth[k].token.s, auth[k].user.resetToken)
     THEN auth' = [auth EXCEPT ![k] =
                     AuthReplied(@, 400, <<"Token verification failed: ", "Invalid reset token">>)]
     ELSE IF ~Truthy(auth[k].newPassword) \/ Len(auth[k].newPassword.s) < 8
     THEN auth' = [auth EXCEPT ![k] =
                     AuthReplied(@, 400, <<"Password update failed: ",
                                           "Password must be at least 8 characters">>)]
     ELSE auth' = [auth EXCEPT ![k].pc = "updateLookup"]
  /\ UNCHANGED <<users, now, nextToken, nextUserId, patients, notifications,
                 predictLocals, adminVars, reads>>

\* updateUserPassword after its lookup: the update of the user is issued.
UpdateLookupResolved(k) ==
  /\ auth[k].op = "resetPassword"
  /\ auth[k].pc = "updateLookup"
  /\ LET found == checkIfFound(users, auth[k].email)
     IN  IF found = JNull
         THEN auth' = [auth EXCEPT ![k] =
                         AuthReplied(@, 400, <<"Password update failed: ", "User not found">>)]
         ELSE auth' = [auth EXCEPT ![k] = [@ EXCEPT !.user = found, !.pc = "updatePassword"]]
  /\ UNCHANGED <<users, now, nextToken, nextUserId, patients, notifications,
                 predictLocals, adminVars, reads>>

\* The new password's hash is stored, the token and its expiry are cleared;
\* resetPassword responds.
UpdatePasswordResolved(k) ==
  /\ auth[k].op = "resetPassword"
  /\ auth[k].pc = "updatePassword"
  /\ \E u \in users : u.id = auth[k].user.id
  /\ users' = updateUser(users, auth[k].user.id,
                         [password |-> bcryptHash(auth[k].newPassword.s),
                          resetToken |-> JNull,
                          resetTokenExpiry |-> JNull])
  /\ auth' = [auth EXCEPT ![k] = [AuthReplied(@, 200, <<>>) EXCEPT !.changed = TRUE]]
  /\ UNCHANGED <<now, nextToken, nextUserId, patients, notifications,
                 predictLocals, adminVars, reads>>

\* The call a password handler awaits fails: the services wrap the error and
\* the handler's catch responds with it.
PasswordCallRejected(k) ==
  /\ auth[k].op \in {"forgotPassword", "resetPassword"}
  /\ auth[k].pc \in {"checkIfFound", "updateUser", "verifyLookup", "compare",
                     "updateLookup", "updatePassword"}
  /\ LET prefix == CASE auth[k].op = "forgotPassword" -> "Password reset failed: "
                     [] auth[k].pc \in {"verifyLookup", "compare"} -> "Token verification failed: "
                     [] OTHER -> "Password update failed: "
         message == IF auth[k].pc \in {"checkIfFound", "verifyLookup", "updateLookup"}
                    THEN <<"User lookup failed">>
                    ELSE PrismaError
     IN  auth' = [auth EXCEPT ![k] = AuthReplied(@, 400, <<prefix>> \o message)]
  /\ UNCHANGED <<users, now, nextToken, nextUserId, patients, notifications,
                 predictLocals, adminVars, reads>>

\* An hour passes.
Tick ==
  /\ now < MaxClock
  /\ now' = now + 1
  /\ UNCHANGED <<users, auth, nextToken, nextUserId, patients, notifications,
                 predictLocals, adminVars, reads>>

\* One step of the password handlers for the request k.
PasswordStep(k) ==
  \/ ForgotPassword(k)
  \/ InitiateLookupResolved(k)
  \/ InitiateUpdateResolved(k)
  \/ ResetPassword(k)
  \/ VerifyLookupResolved(k)
  \/ VerifyCompareResolved(k)
  \/ UpdateLookupResolved(k)
  \/ UpdatePasswordResolved(k)
  \/ PasswordCallRejected(k)

InitReset ==
  /\ InitTables
  /\ req = [r \in Reqs |-> NoRequest]
  /\ InitLocals
  /\ InitIdle
  /\ onUserDelete = "Restrict"
  /\ pythonService = Responses
  /\ probe = NoProbe

NextReset == Tick \/ \E k \in AuthReqs : PasswordStep(k)

SpecReset == InitReset /\ [][NextReset]_vars

\* The resetPassword requests that changed the password presenting the token t.
ChangedWith(t) ==
  {k \in AuthReqs : auth[k].op = "resetPassword" /\ auth[k].token = t /\ auth[k].changed}

\* C18: a password-reset token is single-use: of the resetPassword requests
\* presenting one token at most one changes the password, however the requests
\* interleave; a token that served a successful reset is no longer the stored
\* one, and a request presenting it after that reset responded is rejected
\* without changing the password.
C18_TokenSingleUse ==
  /\ \A t \in DisclosedTokens : Cardinality(ChangedWith(t)) <= 1
  /\ \A k \in AuthReqs :
       (auth[k].op = "resetPassword" /\ auth[k].status = 200) =>
         \A u \in users : u.resetToken # bcryptHash(auth[k].token.s)
  /\ \A k \in AuthReqs :
       auth[k].after # {} =>
         /\ ~auth[k].changed
         /\ auth[k].pc = "done" => auth[k].status = 400

(***************************************************************************)
(* register and login.  The token auth.generateToken signs is kept as its  *)
(* payload.                                                                *)
(***************************************************************************)
adminRoles == {"superadmin", "admin", "moderator"}

\* adminRoles.includes(role) ? role : "user", for a role of the request's
\* body (a value) and for a stored role (a text).
RequestedRole(role) ==
  IF role.t = "string" /\ Len(role.s) = 1 /\ role.s[1] \in adminRoles
  THEN role.s[1]
  ELSE "user"
StoredRole(role) == IF role \in adminRoles THEN role ELSE "user"

\* The parameters of registerUser(email, name, pass, requesterRole = "user",
\* role = "user") for the arguments of a call.
registerUserParams(args) ==
  [email |-> args[1], name |-> args[2], pass |-> args[3],
   requesterRole |-> IF Len(args) >= 4 THEN args[4] ELSE "user",
   role |-> IF Len(args) >= 5 THEN args[5] ELSE "user"]

\* The bodies of register: a new email, a stored one, none; with no role, an
\* admin role, another admin role, a role that is none of the admin roles.
RegisterBodies ==
  [email : {Text("eve@example.org"), Text("alice@example.org"), JUndefined},
   role : {JUndefined, Text("admin"), Text("moderator"), Text("nurse")}]
EvePassword == <<"e", "v", "e", "s", "p", "a", "s", "s">>

\* The bodies of login: the emails and passwords of the stored users, a new
\* user's, none.
LoginBodies ==
  [email : {Text("alice@example.org"), Text("bob@example.org"), Text("eve@example.org")},
   password : {JStr(AlicePassword), JStr(BobPassword), JStr(EvePassword), JUndefined}]

\* The row queries.createUser stores.
UserRow(id, email, name, password, role) ==
  [id |-> JStr(<<"u">> \o NatToChars(id)), name |-> name, email |-> email,
   password |-> password, role |-> role,
   resetToken |-> JNull, resetTokenExpiry |-> JNull]

\* A request to register arrives.
Register(k) ==
  /\ auth[k].op = "none"
  /\ \E body \in RegisterBodies :
       LET a == [auth[k] EXCEPT !.op = "register", !.email = body.email,
                                !.name = Text("Eve"),
                                !.password = JStr(EvePassword), !.role = body.role]
       IN  IF ~Truthy(a.email) \/ ~Truthy(a.name) \/ ~Truthy(a.password)
           THEN auth' = [auth EXCEPT ![k] = AuthReplied(a, 400, <<"All fields are required">>)]
           ELSE auth' = [auth EXCEPT ![k] = [a EXCEPT !.pc = "checkIfFound"]]
  /\ UNCHANGED <<users, now, nextToken, nextUserId, patients, notifications,
                 predictLocals, adminVars, reads>>

\* register after its lookup: the role is settled and registerUser is called.
RegisterLookupResolved(k) ==
  /\ auth[k].op = "register"
  /\ auth[k].pc = "checkIfFound"
  /\ LET existingUser == checkIfFound(users, auth[k].email)
         userRole == RequestedRole(auth[k].role)
         params == registerUserParams(<<auth[k].email, auth[k].name,
                                        auth[k].password, userRole>>)
     IN  IF existingUser # JNull
         THEN auth' = [auth EXCEPT ![k] = AuthReplied(@, 409, <<"User already exists">>)]
         ELSE IF params.role = "admin" /\ params.requesterRole # "admin"
         THEN auth' = [auth EXCEPT ![k] =
                         AuthReplied([@ EXCEPT !.userRole = userRole], 500,
                                     <<"Admin privileges required to create admin accounts">>)]
         ELSE auth' = [auth EXCEPT ![k] =
                         [@ EXCEPT !.userRole = userRole, !.createRole = params.role,
                                   !.pc = "createUser"]]
  /\ UNCHANGED <<users, now, nextToken, nextUserId, patients, notifications,
                 predictLocals, adminVars, reads>>

\* The user is stored; register signs the token and responds.
RegisterCreateResolved(k) ==
  /\ auth[k].op = "register"
  /\ auth[k].pc = "createUser"
  /\ \A u \in users : u.email # auth[k].email
  /\ LET newUser == UserRow(nextUserId, auth[k].email, auth[k].name,
                            bcryptHash(auth[k].password.s), auth[k].createRole)
     IN  /\ users' = users \cup {newUser}
         /\ auth' = [auth EXCEPT ![k] =
                       [AuthReplied(@, 201, <<>>) EXCEPT
                          !.user = newUser,
                          !.jwt = [userId |-> newUser.id, email |-> newUser.email,
                                   role |-> auth[k].userRole]]]
  /\ nextUserId' = nextUserId + 1
  /\ UNCHANGED <<now, nextToken, patients, notifications,
                 predictLocals, adminVars, reads>>

\* A request to login arrives.
Login(k) ==
  /\ auth[k].op = "none"
  /\ \E body \in LoginBodies :
       LET a == [auth[k] EXCEPT !.op = "login", !.email = body.email,
                                !.password = body.password]
       IN  IF ~Truthy(a.email) \/ ~Truthy(a.password)
           THEN auth' = [auth EXCEPT ![k] = AuthReplied(a, 400, <<"Email and password required">>)]
           ELSE auth' = [auth EXCEPT ![k] = [a EXCEPT !.pc = "checkIfFound"]]
  /\ UNCHANGED <<users, now, nextToken, nextUserId, patients, notifications,
                 predictLocals, adminVars, reads>>

\* login after its lookup: the password is verified.
LoginLookupResolved(k) ==
  /\ auth[k].op = "login"
  /\ auth[k].pc = "checkIfFound"
  /\ LET found == checkIfFound(users, auth[k].email)
     IN  IF found = JNull
         THEN auth' = [auth EXCEPT ![k] =
                         AuthReplied(@, 404, <<"User not found. Please signup">>)]
         ELSE auth' = [auth EXCEPT ![k] = [@ EXCEPT !.user = found, !.pc = "verifyPassword"]]
  /\ UNCHANGED <<users, now, nextToken, nextUserId, patients, notifications,
                 predictLocals, adminVars, reads>>

\* The password is compared; login signs the token and responds.
LoginVerifyResolved(k) ==
  /\ auth[k].op = "login"
  /\ auth[k].pc = "verifyPassword"
  /\ IF ~bcryptCompare(auth[k].password.s, auth[k].user.password)
     THEN auth' = [auth EXCEPT ![k] = AuthReplied(@, 401, <<"Invalid credentials">>)]
     ELSE LET userRole == StoredRole(auth[k].user.role)
          IN  auth' = [auth EXCEPT ![k] =
                         [AuthReplied(@, 200, <<>>) EXCEPT
                            !.userRole = userRole,
                            !.jwt = [userId |-> auth[k].user.id,
                                     email |-> auth[k].user.email,
                                     role |-> userRole]]]
  /\ UNCHANGED <<users, now, nextToken, nextUserId, patients, notifications,
                 predictLocals, adminVars, reads>>

\* The call register or login awaits fails: the catch responds.
AccountCallRejected(k) ==
  /\ auth[k].op \in {"register", "login"}
  /\ auth[k].pc \in {"checkIfFound", "createUser", "verifyPassword"}
  /\ LET message == CASE auth[k].op = "login" -> "Internal server error"
                      [] auth[k].pc = "checkIfFound" -> "User lookup failed"
                      [] OTHER -> "User registration failed"
     IN  auth' = [auth EXCEPT ![k] = AuthReplied(@, 500, <<message>>)]
  /\ UNCHANGED <<users, now, nextToken, nextUserId, patients, notifications,
                 predictLocals, adminVars, reads>>

\* One step of register or login for the request k.
AccountStep(k) ==
  \/ Register(k)
  \/ RegisterLookupResolved(k)
  \/ RegisterCreateResolved(k)
  \/ Login(k)
  \/ LoginLookupResolved(k)
  \/ LoginVerifyResolved(k)
  \/ AccountCallRejected(k)

NextAuth == \E k \in AuthReqs : AccountStep(k)

SpecAuth == InitReset /\ [][NextAuth]_vars

\* C19: the role carried by a token that register or login issued equals the
\* role stored for the token's user; so a caller who supplies an admin role in
\* the register body obtains a token with that role only if the account is
\* stored with it.
C19_TokenRoleIsStoredRole ==
  \A k \in AuthReqs :
    auth[k].jwt # Unset =>
      \E u \in users : u.id = auth[k].jwt.userId /\ u.role = auth[k].jwt.role

(***************************************************************************)
(* The admin's deleteUser and deletePatient, next to concurrent predict     *)
(* submissions.  One action per stretch between two awaits.  Each request  *)
(* keeps the rows its own calls deleted.                                   *)
(***************************************************************************)
\* req.params.id of deleteUser: a stored user's id, no user's id.
\* req.params.id of deletePatient: ids the table may hold, and no number.
PatientIdParams == {JStr(<<"1">>), JStr(<<"2">>), JStr(<<"a", "b", "c">>)}

AdminReplied(a, status) == [a EXCEPT !.status = status, !.pc = "done"]

\* The Id of the patient the request a deletes.
TargetId(a) ==
  IF admin[a].op = "deleteUser" THEN admin[a].patient.Id
  ELSE admin[a].patientId.v \div Radix

\* Notification_patientId_fkey, ON DELETE RESTRICT: a patient row that a
\* notification references cannot be deleted.
Referenced(id) == \E n \in notifications : n.patientId = id

\* The patient rows of a user.
PatientsOf(userId) == {p \in patients : p.userId = userId}

\* Deleting the user's row is refused by a foreign key: by Patient.userId
\* when it restricts, by Notification.patientId when the deletion cascades
\* to the user's patients.
UserDeleteRefused(userId) ==
  IF onUserDelete = "Restrict"
  THEN PatientsOf(userId) # {}
  ELSE \E p \in PatientsOf(userId) : Referenced(p.Id)

\* A request to deleteUser arrives: the user is looked up.
DeleteUser(a) ==
  /\ admin[a].op = "none"
  /\ \E id \in {Text("u1"), Text("ghost")} :
       admin' = [admin EXCEPT ![a] = [@ EXCEPT !.op = "deleteUser", !.id = id,
                                                !.pc = "findUser"]]
  /\ UNCHANGED <<users, patients, notifications, onUserDelete, predictLocals, authVars, reads>>

\* deleteUser after its lookup: 404, or one patient of the user is looked for.
DeleteUserFound(a) ==
  /\ admin[a].op = "deleteUser"
  /\ admin[a].pc = "findUser"
  /\ IF findUnique(users, admin[a].id).found
     THEN admin' = [admin EXCEPT ![a].pc = "findFirstPatient"]
     ELSE admin' = [admin EXCEPT ![a] = AdminReplied(@, 404)]
  /\ UNCHANGED <<users, patients, notifications, onUserDelete, predictLocals, authVars, reads>>

\* findFirst returns one of the user's patients, in no promised order, or null.
DeleteUserPatientFound(a) ==
  /\ admin[a].op = "deleteUser"
  /\ admin[a].pc = "findFirstPatient"
  /\ IF PatientsOf(admin[a].id) = {}
     THEN admin' = [admin EXCEPT ![a] = [@ EXCEPT !.patient = JNull, !.pc = "deleteUserRow"]]
     ELSE \E p \in PatientsOf(admin[a].id) :
            admin' = [admin EXCEPT ![a] = [@ EXCEPT !.patient = p,
                                                     !.pc = "deleteNotifications"]]
  /\ UNCHANGED <<users, patients, notifications, onUserDelete, predictLocals, authVars, reads>>

\* A request to deletePatient arrives: 400, or the patient is looked up.
DeletePatient(a) ==
  /\ admin[a].op = "none"
  /\ \E id \in PatientIdParams :
       LET patientId == parseInt(id)
           x == [admin[a] EXCEPT !.op = "deletePatient", !.id = id, !.patientId = patientId]
       IN  IF isNaN(JNum(patientId))
           THEN admin' = [admin EXCEPT ![a] = AdminReplied(x, 400)]
           ELSE admin' = [admin EXCEPT ![a] = [x EXCEPT !.pc = "findPatient"]]
  /\ UNCHANGED <<users, patients, notifications, onUserDelete, predictLocals, authVars, reads>>

\* deletePatient after its lookup: 404, or the notifications are deleted.
DeletePatientFound(a) ==
  /\ admin[a].op = "deletePatient"
  /\ admin[a].pc = "findPatient"
  /\ IF \E p \in patients : p.Id = TargetId(a)
     THEN admin' = [admin EXCEPT ![a].pc = "deleteNotifications"]
     ELSE admin' = [admin EXCEPT ![a] = AdminReplied(@, 404)]
  /\ UNCHANGED <<users, patients, notifications, onUserDelete, predictLocals, authVars, reads>>

\* notification.deleteMany is done: the patient's deletion is issued.
NotificationsDeleted(a) ==
  /\ admin[a].op \in {"deleteUser", "deletePatient"}
  /\ admin[a].pc = "deleteNotifications"
  /\ LET gone == {n \in notifications : n.patientId = TargetId(a)}
     IN  /\ notifications' = notifications \ gone
         /\ admin' = [admin EXCEPT ![a] =
                        [@ EXCEPT !.deletedNotifications = @ \cup gone,
                                  !.pc = "deletePatientRow"]]
  /\ UNCHANGED <<users, patients, onUserDelete, predictLocals, authVars, reads>>

\* patient.delete is done: deletePatient responds, deleteUser issues the
\* user's deletion.
PatientDeleted(a) ==
  /\ admin[a].op \in {"deleteUser", "deletePatient"}
  /\ admin[a].pc = "deletePatientRow"
  /\ ~Referenced(TargetId(a))
  /\ LET gone == {p \in patients : p.Id = TargetId(a)}
     IN  /\ gone # {}
         /\ patients' = patients \ gone
         /\ admin' = [admin EXCEPT ![a] =
                        IF admin[a].op = "deleteUser"
                        THEN [@ EXCEPT !.deletedPatients = @ \cup gone,
                                       !.pc = "deleteUserRow"]
                        ELSE AdminReplied([@ EXCEPT !.deletedPatients = @ \cup gone], 204)]
  /\ UNCHANGED <<users, notifications, onUserDelete, predictLocals, authVars, reads>>

\* patient.delete is refused: the row is gone, or a notification created
\* since references it.
PatientDeleteRefused(a) ==
  /\ admin[a].op \in {"deleteUser", "deletePatient"}
  /\ admin[a].pc = "deletePatientRow"
  /\ \/ Referenced(TargetId(a))
     \/ \A p \in patients : p.Id # TargetId(a)
  /\ admin' = [admin EXCEPT ![a] = AdminReplied(@, 500)]
  /\ UNCHANGED <<users, patients, notifications, onUserDelete, predictLocals, authVars, reads>>

\* user.delete is done: deleteUser responds.
UserDeleted(a) ==
  /\ admin[a].op = "deleteUser"
  /\ admin[a].pc = "deleteUserRow"
  /\ \E u \in users : u.id = admin[a].id
  /\ ~UserDeleteRefused(admin[a].id)
  /\ users' = {u \in users : u.id # admin[a].id}
  /\ patients' = patients \ PatientsOf(admin[a].id)
  /\ admin' = [admin EXCEPT ![a] =
                 AdminReplied([@ EXCEPT !.deletedPatients = @ \cup PatientsOf(admin[a].id)],
                              204)]
  /\ UNCHANGED <<notifications, onUserDelete, predictLocals, authVars, reads>>

\* user.delete is refused: the row is gone, or a foreign key forbids it.
UserDeleteRefusedReply(a) ==
  /\ admin[a].op = "deleteUser"
  /\ admin[a].pc = "deleteUserRow"
  /\ \/ UserDeleteRefused(admin[a].id)
     \/ \A u \in users : u.id # admin[a].id
  /\ admin' = [admin EXCEPT ![a] = AdminReplied(@, 500)]
  /\ UNCHANGED <<users, patients, notifications, onUserDelete, predictLocals, authVars, reads>>

\* The database call an admin handler awaits fails: the catch responds.
AdminCallRejected(a) ==
  /\ admin[a].pc \in {"findUser", "findFirstPatient", "findPatient",
                      "deleteNotifications", "deletePatientRow", "deleteUserRow"}
  /\ admin' = [admin EXCEPT ![a] = AdminReplied(@, 500)]
  /\ UNCHANGED <<users, patients, notifications, onUserDelete, predictLocals, authVars, reads>>

\* One step of the admin's handlers for the request a.
AdminStep(a) ==
  \/ DeleteUser(a)
  \/ DeleteUserFound(a)
  \/ DeleteUserPatientFound(a)
  \/ DeletePatient(a)
  \/ DeletePatientFound(a)
  \/ NotificationsDeleted(a)
  \/ PatientDeleted(a)
  \/ PatientDeleteRefused(a)
  \/ UserDeleted(a)
  \/ UserDeleteRefusedReply(a)
  \/ AdminCallRejected(a)

\* The submissions next to the admin: every slot holds a well-formed
\* submission of the user the admin may delete.
AdminResponses == {m \in ConcResponses : m[1][1]}

InitAdmin ==
  /\ InitTables
  /\ req = [r \in Reqs |-> [userId |-> Text("u1"), body |-> BaseBody, present |-> TRUE]]
  /\ InitLocals
  /\ InitIdle
  /\ onUserDelete \in {"Restrict", "Cascade"}
  /\ pythonService = AdminResponses
  /\ probe = NoProbe

NextAdmin ==
  \/ \E r \in Reqs : PredictStep(r)
  \/ \E a \in AdminReqs : AdminStep(a)

SpecAdmin == InitAdmin /\ [][NextAdmin]_vars

\* C20: under any interleaving of predict, deletePatient and deleteUser every
\* notification's patientId is the Id of a stored patient record; once
\* deleteUser has responded 204 no patient record of the deleted user is
\* stored; and a deleteUser that responded with an error has deleted none of
\* the user's patient records and notifications.
C20_DeletionConsistent ==
  /\ \A n \in notifications : \E p \in patients : p.Id = n.patientId
  /\ \A a \in AdminReqs :
       (admin[a].op = "deleteUser" /\ admin[a].status = 204) =>
         PatientsOf(admin[a].id) = {}
  /\ \A a \in AdminReqs :
       (admin[a].op = "deleteUser" /\ admin[a].status \in {404, 500}) =>
         /\ admin[a].deletedPatients = {}
         /\ admin[a].deletedNotifications = {}

(***************************************************************************)
(* getAllPatients and getPatientDetails, next to predict submissions of    *)
(* two users.  One action per stretch between two awaits.                  *)
(***************************************************************************)
\* req.user?.userId of a request for records: absent, and the stored users'.
ReadIdentities == {JUndefined, Text("u1"), Text("u2")}

\* prisma.patient.findMany({ where: { userId } }): the matching rows.
findMany(table, userId) == {p \in table : p.userId = userId}

\* orderBy: { CreatedAt: 'desc' }: the latest row first; rows are created in
\* the order of the serial.
RECURSIVE OrderedDesc(_)
OrderedDesc(rows) ==
  IF rows = {} THEN <<>>
  ELSE LET latest == CHOOSE p \in rows : \A o \in rows : o.Id <= p.Id
       IN  <<latest>> \o OrderedDesc(rows \ {latest})

\* A variant of the lookup that asks for the Id alone.
findFirstAnyOwner(table, Id, userId) ==
  IF \E p \in table : p.Id = Id
  THEN CHOOSE p \in table : p.Id = Id
  ELSE JNull

\* prisma.patient.findFirst({ where: { Id: patientId, userId } }): a matching
\* row or null; Id is the table's key, so at most one row matches.
findFirst(table, Id, userId) ==
  IF \E p \in table : p.Id = Id /\ p.userId = userId
  THEN CHOOSE p \in table : p.Id = Id /\ p.userId = userId
  ELSE JNull

ReadReplied(x, status, error, json) ==
  [x EXCEPT !.status = status, !.error = error, !.json = json, !.pc = "done"]

\* A request to getAllPatients arrives: 401, or the rows are asked for.
GetAllPatients(q) ==
  /\ reads[q].op = "none"
  /\ \E userId \in ReadIdentities :
       LET x == [reads[q] EXCEPT !.op = "getAllPatients", !.userId = userId]
       IN  IF ~Truthy(userId)
           THEN reads' = [reads EXCEPT ![q] =
                            ReadReplied(x, 401, <<"Authentication required">>, Unset)]
           ELSE reads' = [reads EXCEPT ![q] = [x EXCEPT !.pc = "findMany"]]
  /\ UNCHANGED <<users, patients, notifications, predictLocals, authVars, adminVars>>

\* The rows arrive: getAllPatients responds with them.
FindManyResolved(q) ==
  /\ reads[q].op = "getAllPatients"
  /\ reads[q].pc = "findMany"
  /\ reads' = [reads EXCEPT ![q] =
                 ReadReplied(@, 200, <<>>, OrderedDesc(findMany(patients, reads[q].userId)))]
  /\ UNCHANGED <<users, patients, notifications, predictLocals, authVars, adminVars>>

\* A request to getPatientDetails arrives: 401, 400, or the row is asked for.
GetPatientDetails(q) ==
  /\ reads[q].op = "none"
  /\ \E userId \in ReadIdentities, id \in PatientIdParams :
       LET patientId == parseInt(id)
           x == [reads[q] EXCEPT !.op = "getPatientDetails", !.userId = userId,
                                 !.id = id, !.patientId = patientId]
       IN  IF ~Truthy(userId)
           THEN reads' = [reads EXCEPT ![q] =
                            ReadReplied(x, 401, <<"Authentication required">>, Unset)]
           ELSE IF isNaN(JNum(patientId))
           THEN reads' = [reads EXCEPT ![q] =
                            ReadReplied(x, 400, <<"Invalid patient ID">>, Unset)]
           ELSE reads' = [reads EXCEPT ![q] = [x EXCEPT !.pc = "findFirst"]]
  /\ UNCHANGED <<users, patients, notifications, predictLocals, authVars, adminVars>>

\* The row or null arrives: getPatientDetails responds.
FindFirstResolved(q) ==
  /\ reads[q].op = "getPatientDetails"
  /\ reads[q].pc = "findFirst"
  /\ LET found == findFirst(patients, reads[q].patientId.v \div Radix, reads[q].userId)
     IN  IF found = JNull
         THEN reads' = [reads EXCEPT ![q] =
                          ReadReplied(@, 404, <<"Patient not found">>, Unset)]
         ELSE reads' = [reads EXCEPT ![q] = ReadReplied(@, 200, <<>>, found)]
  /\ UNCHANGED <<users, patients, notifications, predictLocals, authVars, adminVars>>

\* The query fails: the catch responds.
ReadCallRejected(q) ==
  /\ reads[q].pc \in {"findMany", "findFirst"}
  /\ LET message == IF reads[q].op = "getAllPatients"
                    THEN "Failed to fetch patients"
                    ELSE "Failed to fetch patient details"
     IN  reads' = [reads EXCEPT ![q] = ReadReplied(@, 500, <<message>>, Unset)]
  /\ UNCHANGED <<users, patients, notifications, predictLocals, authVars, adminVars>>

\* One step of the handlers of the request q.
ReadStep(q) ==
  \/ GetAllPatients(q)
  \/ FindManyResolved(q)
  \/ GetPatientDetails(q)
  \/ FindFirstResolved(q)
  \/ ReadCallRejected(q)

\* The submissions next to the readers are well-formed, of the two stored
\* users in turn.
InitRead ==
  /\ InitTables
  /\ req = [r \in Reqs |->
              [userId |-> IF r % 2 = 1 THEN Text("u1") ELSE Text("u2"),
               body |-> BaseBody, present |-> TRUE]]
  /\ InitLocals
  /\ InitIdle
  /\ onUserDelete = "Restrict"
  /\ pythonService = AdminResponses
  /\ probe = NoProbe

NextRead ==
  \/ \E r \in Reqs : PredictStep(r)
  \/ \E q \in ReadReqs : ReadStep(q)

SpecRead == InitRead /\ [][NextRead]_vars

\* The stored records whose Id is what the request's id parameter spells.
Requested(q) ==
  {p \in patients : reads[q].id.t = "string" /\ NatToChars(p.Id) = reads[q].id.s}

\* C21: getAllPatients and getPatientDetails hand an authenticated caller only
\* stored patient records whose userId is the caller's id: every record of a
\* list is the caller's, a record answered by id is the caller's and the one
\* asked for, and a request by id for a record of another user is answered
\* 404 Patient not found, whatever records exist.
C21_OnlyOwnRecords ==
  \A q \in ReadReqs :
    /\ reads[q].status = 200 => Truthy(reads[q].userId)
    /\ (reads[q].op = "getAllPatients" /\ reads[q].status = 200) =>
         \A i \in 1..Len(reads[q].json) :
           /\ reads[q].json[i] \in patients
           /\ reads[q].json[i].userId = reads[q].userId
    /\ (reads[q].op = "getPatientDetails" /\ reads[q].status = 200) =>
         /\ reads[q].json \in Requested(q)
         /\ reads[q].json.userId = reads[q].userId
    /\ ( /\ reads[q].op = "getPatientDetails"
         /\ reads[q].pc = "done"
         /\ Truthy(reads[q].userId)
         /\ \E p \in Requested(q) : p.userId # reads[q].userId ) =>
         \/ reads[q].status = 404 /\ reads[q].error = <<"Patient not found">>
         \/ reads[q].status = 500

\* C21 witness: records of both users are stored, one caller was handed a list
\* and another caller, asking by id for a record that is not theirs, got 404.
C21_Witness ==
  /\ \E p, o \in patients : p.userId # o.userId
  /\ \E q \in ReadReqs :
       /\ reads[q].op = "getAllPatients"
       /\ reads[q].status = 200
       /\ Len(reads[q].json) >= 1
  /\ \E q \in ReadReqs :
       /\ reads[q].op = "getPatientDetails"
       /\ reads[q].status = 404
       /\ \E p \in Requested(q) : p.userId # reads[q].userId

====
